---- MODULE Spec2Model ----
(***************************************************************************)
(* MacroViz v0.1 (src/app.py): a Streamlit script that parses a country   *)
(* list, fetches one World Bank indicator per country through a memoized  *)
(* function, concatenates the per-country tables and renders them.        *)
(*                                                                         *)
(* Strings the code transforms (the country text, the "date" of a payload *)
(* entry) are sequences of one-character strings, so that split, strip,   *)
(* upper and int are computed rather than assumed.                        *)
(***************************************************************************)
EXTENDS Integers, Sequences, FiniteSets, TLC

VARIABLES
    countries_text,  \* st.text_input widget state (line 51)
    indicator_code,  \* INDICATORS[indicator_name] (line 57)
    start_year,      \* st.slider lower end (line 58)
    end_year,        \* st.slider upper end (line 58)
    run,             \* st.button result of the current script run (line 59)
    countries,       \* parsed country list (line 61)
    pc,              \* position of the current script run
    idx,             \* position of the for loop of line 81 in countries
    frames,          \* the list built by the loop (line 80)
    df,              \* the combined table (line 87)
    outputs,         \* elements the current script run has put on the page
    warnings,        \* countries named by the st.warning calls of line 85
    cache,           \* st.cache_data store of fetch_world_bank (line 22)
    calls,           \* history: the fetch_world_bank calls of the current run
    last_resp,       \* history: the service's answer to the latest of them
    returned         \* history: the first table returned for each input tuple

vars == <<countries_text, indicator_code, start_year, end_year, run, countries,
          pc, idx, frames, df, outputs, warnings, cache, calls, last_resp,
          returned>>

----------------------------------------------------------------------------
(* Bounds of the model *)

\* longest token list the exhaustive country texts are built from
MaxTokens == 2
\* most entries in the second element of a payload
MaxEntries == 2

(* Program constants *)

\* line 75: len(countries) > 15
MaxCountries == 15
\* line 58: st.slider("Year range", 1960, 2026, (2000, 2024)): the upper end
\* of the slider and the default range
SliderMax == 2026
SliderDefaultStart == 2000
SliderDefaultEnd == 2024

None == "None"

----------------------------------------------------------------------------
(* Python string operations used by line 61 *)

\* str.upper on one character
UpperChar(ch) ==
    CASE ch = "a" -> "A"
      [] ch = "b" -> "B"
      [] OTHER -> ch

\* str.upper
Upper(s) == [k \in 1..Len(s) |-> UpperChar(s[k])]

RECURSIVE LStrip(_)
LStrip(s) == IF s # <<>> /\ Head(s) = " " THEN LStrip(Tail(s)) ELSE s

RECURSIVE RStrip(_)
RStrip(s) ==
    IF s # <<>> /\ s[Len(s)] = " " THEN RStrip(SubSeq(s, 1, Len(s) - 1)) ELSE s

\* str.strip
Strip(s) == RStrip(LStrip(s))

\* str.split(","): the pieces between commas, empty pieces included;
\* "" splits into [""]
RECURSIVE SplitFrom(_, _)
SplitFrom(s, cur) ==
    IF s = <<>> THEN <<cur>>
    ELSE IF Head(s) = "," THEN <<cur>> \o SplitFrom(Tail(s), <<>>)
    ELSE SplitFrom(Tail(s), Append(cur, Head(s)))

Split(s) == SplitFrom(s, <<>>)

\* the comprehension of line 61 without upper()
RECURSIVE StripNonEmpty(_)
StripNonEmpty(toks) ==
    IF toks = <<>> THEN <<>>
    ELSE IF Strip(Head(toks)) # <<>>
         THEN <<Strip(Head(toks))>> \o StripNonEmpty(Tail(toks))
         ELSE StripNonEmpty(Tail(toks))

\* line 61: [c.strip().upper() for c in countries_text.split(",") if c.strip()]
RECURSIVE StripUpperNonEmpty(_)
StripUpperNonEmpty(toks) ==
    IF toks = <<>> THEN <<>>
    ELSE IF Strip(Head(toks)) # <<>>
         THEN <<Upper(Strip(Head(toks)))>> \o StripUpperNonEmpty(Tail(toks))
         ELSE StripUpperNonEmpty(Tail(toks))

ParseCountries(text) == StripUpperNonEmpty(Split(text))

----------------------------------------------------------------------------
(* The service's answer to one GET (lines 28-30) *)

\* lines 11-20: two of the eight codes of INDICATORS
INDICATORS == {"NY.GDP.MKTP.CD", "SP.POP.TOTL"}

\* the "date" strings of payload entries: empty, two years, one that int()
\* rejects
DateTexts ==
    { <<>>,
      <<"2", "0", "0", "0">>,
      <<"2", "0", "0", "1">>,
      <<"2", "0", "0", "1", "Q", "1">> }

\* what item.get gives for a string field: None when the key is missing or
\* null, else the string
NoneStr == [isNone |-> TRUE, s |-> <<>>]
Str(d) == [isNone |-> FALSE, s |-> d]

Dates == {NoneStr} \cup {Str(d) : d \in DateTexts}

BaseEntry ==
    [date |-> Str(<<"2", "0", "0", "0">>), country |-> Str(<<"G", "e", "r">>),
     indicator |-> None, value |-> "1.5"]

\* payload entries: the base entry with one field varied at a time; country
\* and indicator stand for the nested country.value and indicator.id
Entries ==
    {[BaseEntry EXCEPT !.date = d] : d \in Dates}
    \cup {[BaseEntry EXCEPT !.indicator = i] : i \in INDICATORS}
    \cup {[BaseEntry EXCEPT !.country = NoneStr], [BaseEntry EXCEPT !.value = None]}

SeqsUpTo(S, n) == UNION {[1..k -> S] : k \in 0..n}

ConnectionError ==
    [conn |-> FALSE, status |-> 0, json |-> FALSE, top |-> "none", items |-> <<>>]

HttpError ==
    [conn |-> TRUE, status |-> 500, json |-> FALSE, top |-> "none", items |-> <<>>]

NotJson ==
    [conn |-> TRUE, status |-> 200, json |-> FALSE, top |-> "none", items |-> <<>>]

\* a 200 response with a JSON body: top is the shape of the decoded value
\* ("dict": not a list, "list1": fewer than two elements, "list_null":
\* data[1] is None, "list_array": data[1] is the sequence items)
JsonBody(top, items) ==
    [conn |-> TRUE, status |-> 200, json |-> TRUE, top |-> top, items |-> items]

Responses ==
    {ConnectionError, HttpError, NotJson}
    \cup {JsonBody(t, <<>>) : t \in {"dict", "list1", "list_null"}}
    \cup {JsonBody("list_array", its) : its \in SeqsUpTo(Entries, MaxEntries)}

E2000 == BaseEntry
E2001 == [BaseEntry EXCEPT !.date = Str(<<"2", "0", "0", "1">>)]
ENoDate == [BaseEntry EXCEPT !.date = NoneStr]

\* the answers the service gives in the runs with varied inputs
SampleResponses ==
    { ConnectionError, HttpError,
      JsonBody("list_null", <<>>),
      JsonBody("list_array", <<>>),
      JsonBody("list_array", <<E2001, E2000>>),
      JsonBody("list_array", <<ENoDate, E2001>>) }

----------------------------------------------------------------------------
(* fetch_world_bank (lines 23-47) *)

ObservationColumns == <<"iso3", "country", "indicator", "year", "value">>

\* pd.DataFrame(): no columns, no rows
NoFrame == [columns |-> <<>>, rows |-> <<>>]

\* line 33: pd.DataFrame(columns=[...])
EmptyObservations == [columns |-> ObservationColumns, rows |-> <<>>]

\* the year of a row whose date was None or "": pandas NaN
NaN == -1

DigitValue(ch) ==
    CASE ch = "0" -> 0
      [] ch = "1" -> 1
      [] ch = "2" -> 2
      [] OTHER -> -1

\* int(s) accepts s: a non-empty string of digits
IsIntLiteral(s) == s # <<>> /\ \A k \in 1..Len(s) : DigitValue(s[k]) >= 0

\* int(s) for such a string
RECURSIVE IntOf(_)
IntOf(s) ==
    IF s = <<>> THEN 0
    ELSE 10 * IntOf(SubSeq(s, 1, Len(s) - 1)) + DigitValue(s[Len(s)])

\* line 42: "if year": None and "" are falsy
Truthy(d) == ~d.isNone /\ d.s # <<>>

\* line 42 raises ValueError
YearRaises(d) == Truthy(d) /\ ~IsIntLiteral(d.s)

\* line 42: int(year) if year else None
YearOf(d) == IF Truthy(d) THEN IntOf(d.s) ELSE NaN

\* lines 38-44 with the indicator always the requested code
RowOfRequestedIndicator(country_iso3, indicator, item) ==
    [iso3 |-> Upper(country_iso3),
     country |-> IF item.country.isNone THEN Upper(country_iso3) ELSE item.country.s,
     indicator |-> indicator,
     year |-> YearOf(item.date),
     value |-> item.value]

\* lines 38-44: the dict appended for one item
RowOf(country_iso3, indicator, item) ==
    [iso3 |-> Upper(country_iso3),
     country |-> IF item.country.isNone THEN Upper(country_iso3) ELSE item.country.s,
     indicator |-> IF item.indicator = None THEN indicator ELSE item.indicator,
     year |-> YearOf(item.date),
     value |-> item.value]

\* lines 35-44
RowsOf(country_iso3, indicator, items) ==
    [k \in 1..Len(items) |-> RowOf(country_iso3, indicator, items[k])]

\* line 46: pd.DataFrame(rows): the columns are the keys of the dicts, so a
\* frame built from no dicts has no columns
DataFrame(rows) ==
    [columns |-> IF rows = <<>> THEN <<>> ELSE ObservationColumns, rows |-> rows]

HasColumn(frame, col) == \E k \in 1..Len(frame.columns) : frame.columns[k] = col

\* line 46: dropna(subset=["year"]) raises KeyError when there is no such column
DropNaRaises(frame) == ~HasColumn(frame, "year")

RECURSIVE DropNaRows(_)
DropNaRows(rows) ==
    IF rows = <<>> THEN <<>>
    ELSE IF Head(rows).year = NaN THEN DropNaRows(Tail(rows))
    ELSE <<Head(rows)>> \o DropNaRows(Tail(rows))

\* line 46: dropna(subset=["year"])
DropNa(frame) == [frame EXCEPT !.rows = DropNaRows(frame.rows)]

IsAscending(rows) == \A k \in 1..(Len(rows) - 1) : rows[k].year <= rows[k + 1].year

\* line 46 without sort_values
Unsorted(frame) == {frame}

\* line 46: sort_values("year").reset_index(drop=True): the default sort is
\* not stable, so rows of equal year may come out in any order
SortValues(frame) ==
    LET n == Len(frame.rows)
        perms == {p \in [1..n -> 1..n] : \A a, b \in 1..n : p[a] = p[b] => a = b}
    IN  {[frame EXCEPT !.rows = [k \in 1..n |-> frame.rows[p[k]]]] : p \in
            {q \in perms : IsAscending([k \in 1..n |-> frame.rows[q[k]]])}}

Raised(err) == [err |-> err, table |-> NoFrame]
Returned(t) == [err |-> None, table |-> t]

\* the body of fetch_world_bank on the service's answer resp: the set of
\* its possible outcomes, each an exception (err) or a returned table
fetch_world_bank(country_iso3, indicator, resp) ==
    IF ~resp.conn THEN {Raised("ConnectionError")}
    ELSE IF resp.status >= 400 THEN {Raised("HTTPError")}
    ELSE IF ~resp.json THEN {Raised("JSONDecodeError")}
    ELSE IF resp.top \in {"dict", "list1", "list_null"} THEN {Returned(EmptyObservations)}
    ELSE IF \E k \in 1..Len(resp.items) : YearRaises(resp.items[k].date)
         THEN {Raised("ValueError")}
    ELSE LET frame == DataFrame(RowsOf(country_iso3, indicator, resp.items))
         IN  IF DropNaRaises(frame) THEN {Raised("KeyError")}
             ELSE {Returned(t) : t \in SortValues(DropNa(frame))}

----------------------------------------------------------------------------
(* st.cache_data (line 22): results keyed by the argument tuple; an         *)
(* exception stores nothing; no ttl and no max_entries are given            *)

CacheKey(country_iso3, indicator, start, end) == <<country_iso3, indicator, start, end>>

CacheHit(store, key) == key \in DOMAIN store

\* a store that keeps nothing
CacheStoreNothing(store, key, table) == store

CacheStore(store, key, table) ==
    [k \in DOMAIN store \cup {key} |-> IF k = key THEN table ELSE store[k]]

----------------------------------------------------------------------------
(* Aggregation and the emptiness test (lines 87-89) *)

RECURSIVE ConcatRows(_)
ConcatRows(fs) == IF fs = <<>> THEN <<>> ELSE Head(fs).rows \o ConcatRows(Tail(fs))

\* the columns of pd.concat: those of the frames, in order of first appearance
RECURSIVE ConcatColumns(_, _)
ConcatColumns(fs, acc) ==
    IF fs = <<>> THEN acc
    ELSE LET cols == Head(fs).columns
             new == SelectSeq(cols, LAMBDA c : \A k \in 1..Len(acc) : acc[k] # c)
         IN  ConcatColumns(Tail(fs), acc \o new)

\* line 87: pd.concat(frames, ignore_index=True) if frames else pd.DataFrame()
Concat(fs) ==
    IF fs # <<>> THEN [columns |-> ConcatColumns(fs, <<>>), rows |-> ConcatRows(fs)]
    ELSE NoFrame

\* an emptiness test that looks at the columns only
EmptyColumns(frame) == Len(frame.columns) = 0

\* line 89: DataFrame.empty: some axis has length 0
Empty(frame) == Len(frame.rows) = 0 \/ Len(frame.columns) = 0

----------------------------------------------------------------------------
(* The inputs the user can give *)

RawTokens == { <<>>, <<" ">>, <<"A">>, <<" ", "a", " ">>, <<"B">> }

\* the tokens joined by commas
RECURSIVE Join(_)
Join(toks) ==
    IF toks = <<>> THEN <<>>
    ELSE IF Len(toks) = 1 THEN Head(toks)
    ELSE Head(toks) \o <<",">> \o Join(Tail(toks))

\* n codes, A and B in turn
Alternating(n) == Join([k \in 1..n |-> IF k % 2 = 1 THEN <<"A">> ELSE <<"B">>])

\* every text of up to MaxTokens tokens, and the texts at the limit of line 75
Texts ==
    {Join(toks) : toks \in SeqsUpTo(RawTokens, MaxTokens)}
    \cup {Alternating(MaxCountries), Alternating(MaxCountries + 1)}

\* line 53: value="DEU,BRA"
DefaultText == <<"A", ",", "B">>

\* lines 56-58: index=0 and (2000, 2024)
DefaultQuery == <<"NY.GDP.MKTP.CD", SliderDefaultStart, SliderDefaultEnd>>

\* an indicator code with a year range of the slider
Queries ==
    {<<i, s, e>> : i \in INDICATORS, s \in {SliderDefaultStart},
                   e \in {SliderDefaultEnd, SliderMax}}

Resting == {"Idle", "RejectedInput", "EmptyResult", "Rendered"}

\* the value of last_resp when the latest call made no request
NoRequest ==
    [conn |-> FALSE, status |-> 0, json |-> FALSE, top |-> "no_request", items |-> <<>>]

----------------------------------------------------------------------------
(* The script: one run per user action *)

Init ==
    /\ countries_text = DefaultText
    /\ indicator_code = DefaultQuery[1]
    /\ start_year = DefaultQuery[2]
    /\ end_year = DefaultQuery[3]
    /\ run = FALSE
    /\ countries = ParseCountries(DefaultText)
    /\ pc = "Idle"
    /\ idx = 0
    /\ frames = <<>>
    /\ df = NoFrame
    /\ outputs = {"info"}
    /\ warnings = <<>>
    /\ cache = <<>>
    /\ calls = <<>>
    /\ last_resp = NoRequest
    /\ returned = <<>>

\* A widget other than the button changes: the script reruns with run False
\* and stops at line 69
EditInputs(texts, queries) ==
    /\ pc \in Resting
    /\ \E t \in texts, q \in queries :
        /\ countries_text' = t
        /\ indicator_code' = q[1]
        /\ start_year' = q[2]
        /\ end_year' = q[3]
        /\ countries' = ParseCountries(t)
    /\ run' = FALSE
    /\ pc' = "Idle"
    /\ idx' = 0
    /\ frames' = <<>>
    /\ df' = NoFrame
    /\ outputs' = {"info"}
    /\ warnings' = <<>>
    /\ calls' = <<>>
    /\ last_resp' = NoRequest
    /\ UNCHANGED <<cache, returned>>

\* "Load data" is clicked: the script reruns with run True (lines 59-67)
LoadData ==
    /\ pc \in Resting
    /\ run' = TRUE
    /\ countries' = ParseCountries(countries_text)
    /\ pc' = "Validating"
    /\ idx' = 0
    /\ frames' = <<>>
    /\ df' = NoFrame
    /\ outputs' = {}
    /\ warnings' = <<>>
    /\ calls' = <<>>
    /\ last_resp' = NoRequest
    /\ UNCHANGED <<countries_text, indicator_code, start_year, end_year, cache, returned>>

\* line 75 with >= for >
TooManyFrom15(cs) == Len(cs) >= MaxCountries

\* line 75
TooMany(cs) == Len(cs) > MaxCountries

\* lines 71-79
Validate ==
    /\ pc = "Validating"
    /\ IF Len(countries) = 0
       THEN /\ outputs' = outputs \cup {"error_no_country"}
            /\ pc' = "RejectedInput"
            /\ UNCHANGED <<idx, frames>>
       ELSE IF TooMany(countries)
       THEN /\ outputs' = outputs \cup {"error_too_many"}
            /\ pc' = "RejectedInput"
            /\ UNCHANGED <<idx, frames>>
       ELSE /\ pc' = "Fetching"
            /\ idx' = 1
            /\ frames' = <<>>
            /\ UNCHANGED outputs
    /\ UNCHANGED <<countries_text, indicator_code, start_year, end_year, run, countries,
                   df, warnings, cache, calls, last_resp, returned>>

CurrentKey == CacheKey(countries[idx], indicator_code, start_year, end_year)

\* history record of one call of line 83: its arguments, whether it made a
\* request, whether it raised, and the table returned
CallRecord(key, net, outcome) ==
    [country |-> key[1], key |-> key, net |-> net,
     raised |-> outcome.err # None, table |-> outcome.table]

\* a loop that an exception ends
LoopAdvanceUnlessRaised(i, outcome) ==
    IF outcome.err # None THEN Len(countries) + 1 ELSE i + 1

\* lines 81-85: the for loop goes on to the next country whether the call
\* returned or its exception was caught
LoopAdvance(i, outcome) == i + 1

\* line 83 when the tuple is in the cache: the stored table, no request
FetchCached ==
    /\ pc = "Fetching"
    /\ idx <= Len(countries)
    /\ CacheHit(cache, CurrentKey)
    /\ frames' = Append(frames, cache[CurrentKey])
    /\ calls' = Append(calls, CallRecord(CurrentKey, FALSE, Returned(cache[CurrentKey])))
    /\ last_resp' = NoRequest
    /\ idx' = LoopAdvance(idx, Returned(cache[CurrentKey]))
    /\ UNCHANGED <<countries_text, indicator_code, start_year, end_year, run, countries,
                   pc, df, outputs, warnings, cache, returned>>

\* lines 82-85 when it is not: the function body runs on the answer resp
FetchRemote(resp) ==
    /\ pc = "Fetching"
    /\ idx <= Len(countries)
    /\ ~CacheHit(cache, CurrentKey)
    /\ \E o \in fetch_world_bank(countries[idx], indicator_code, resp) :
        /\ calls' = Append(calls, CallRecord(CurrentKey, TRUE, o))
        /\ last_resp' = resp
        /\ idx' = LoopAdvance(idx, o)
        /\ IF o.err = None
           THEN /\ frames' = Append(frames, o.table)
                /\ cache' = CacheStore(cache, CurrentKey, o.table)
                /\ returned' = [k \in DOMAIN returned \cup {CurrentKey} |->
                                    IF k \in DOMAIN returned THEN returned[k] ELSE o.table]
                /\ UNCHANGED warnings
           ELSE /\ warnings' = Append(warnings, countries[idx])
                /\ UNCHANGED <<frames, cache, returned>>
    /\ UNCHANGED <<countries_text, indicator_code, start_year, end_year, run, countries,
                   pc, df, outputs>>

\* line 87, after the loop
Aggregate ==
    /\ pc = "Fetching"
    /\ idx > Len(countries)
    /\ df' = Concat(frames)
    /\ pc' = "Aggregating"
    /\ UNCHANGED <<countries_text, indicator_code, start_year, end_year, run, countries,
                   idx, frames, outputs, warnings, cache, calls, last_resp, returned>>

\* lines 89-110
Render ==
    /\ pc = "Aggregating"
    /\ IF Empty(df)
       THEN /\ outputs' = outputs \cup {"warning_no_data"}
            /\ pc' = "EmptyResult"
       ELSE /\ outputs' = outputs \cup {"chart", "table", "csv"}
            /\ pc' = "Rendered"
    /\ UNCHANGED <<countries_text, indicator_code, start_year, end_year, run, countries,
                   idx, frames, df, warnings, cache, calls, last_resp, returned>>

Script(texts, queries, resps) ==
    \/ EditInputs(texts, queries)
    \/ LoadData
    \/ Validate
    \/ FetchCached
    \/ \E resp \in resps : FetchRemote(resp)
    \/ Aggregate
    \/ Render

\* varied country texts, the default query, the sample answers
Next == Script(Texts, {DefaultQuery}, SampleResponses)

Spec == Init /\ [][Next]_vars

\* a run, once triggered, executes to its st.stop() or to the end of the
\* script without waiting for anything
RunStep ==
    Validate \/ FetchCached \/ (\E resp \in SampleResponses : FetchRemote(resp))
    \/ Aggregate \/ Render

FairSpec == Spec /\ WF_vars(RunStep)

\* one country, the default query, every answer of the service
OneCountryText == <<" ", "a", " ">>

InitPayload ==
    /\ countries_text = OneCountryText
    /\ indicator_code = DefaultQuery[1]
    /\ start_year = DefaultQuery[2]
    /\ end_year = DefaultQuery[3]
    /\ run = FALSE
    /\ countries = ParseCountries(OneCountryText)
    /\ pc = "Idle"
    /\ idx = 0
    /\ frames = <<>>
    /\ df = NoFrame
    /\ outputs = {"info"}
    /\ warnings = <<>>
    /\ cache = <<>>
    /\ calls = <<>>
    /\ last_resp = NoRequest
    /\ returned = <<>>

NextPayload == Script({OneCountryText}, {DefaultQuery}, Responses)

PayloadSpec == InitPayload /\ [][NextPayload]_vars

\* one country alone or listed twice, every query, the sample answers
RepeatTexts == {<<"A">>, <<"A", ",", "A">>}

InitCache ==
    /\ countries_text = <<"A">>
    /\ indicator_code = DefaultQuery[1]
    /\ start_year = DefaultQuery[2]
    /\ end_year = DefaultQuery[3]
    /\ run = FALSE
    /\ countries = ParseCountries(<<"A">>)
    /\ pc = "Idle"
    /\ idx = 0
    /\ frames = <<>>
    /\ df = NoFrame
    /\ outputs = {"info"}
    /\ warnings = <<>>
    /\ cache = <<>>
    /\ calls = <<>>
    /\ last_resp = NoRequest
    /\ returned = <<>>

NextCache == Script(RepeatTexts, Queries, SampleResponses)

CacheSpec == InitCache /\ [][NextCache]_vars

----------------------------------------------------------------------------
(* Properties of a run *)

Terminal == {"RejectedInput", "EmptyResult", "Rendered"}

AfterLoop == {"Aggregating", "EmptyResult", "Rendered"}

Rendering == {"chart", "table", "csv"}

ValidLength(n) == 1 <= n /\ n <= 15

\* the countries of the calls that raised, in call order
RECURSIVE RaisedCountries(_)
RaisedCountries(cs) ==
    IF cs = <<>> THEN <<>>
    ELSE (IF Head(cs).raised THEN <<Head(cs).country>> ELSE <<>>)
         \o RaisedCountries(Tail(cs))

\* the tables of the calls that returned, in call order
RECURSIVE ReturnedTables(_)
ReturnedTables(cs) ==
    IF cs = <<>> THEN <<>>
    ELSE (IF Head(cs).raised THEN <<>> ELSE <<Head(cs).table>>)
         \o ReturnedTables(Tail(cs))

\* the number of rows the calls before call k returned
RECURSIVE RowsBefore(_)
RowsBefore(k) ==
    IF k <= 1 THEN 0
    ELSE RowsBefore(k - 1)
         + (IF calls[k - 1].raised THEN 0 ELSE Len(calls[k - 1].table.rows))

\* C1: a triggered run whose parsed country list is empty or has more than
\* 15 codes ends in the blocking error without any call of fetch_world_bank
\* (request or cache lookup), and a run with 1 to 15 codes is not rejected.
C1_InvalidInputRejectedBeforeFetch ==
    /\ (run /\ ~ValidLength(Len(countries))) =>
          /\ pc \in {"Validating", "RejectedInput"}
          /\ calls = <<>>
    /\ pc = "RejectedInput" =>
          /\ ~ValidLength(Len(countries))
          /\ outputs \cap {"error_no_country", "error_too_many"} # {}
          /\ calls = <<>>
    /\ (run /\ ValidLength(Len(countries))) => pc # "RejectedInput"

C1_Witness ==
    /\ pc = "RejectedInput"
    /\ Len(countries) = 16
    /\ "error_too_many" \in outputs

\* C2: in a run with valid input the calls of fetch_world_bank are one per
\* listed country, in list order, whatever earlier calls did; each call that
\* raised gave exactly one warning naming its country and no frame; the
\* combined table holds the rows of exactly the calls that returned.
C2_EveryCountryFetchedOnceInOrder ==
    /\ pc = "Fetching" => Len(calls) = idx - 1 /\ idx <= Len(countries) + 1
    /\ pc \in AfterLoop => Len(calls) = Len(countries)
    /\ pc \in {"Fetching"} \cup AfterLoop =>
          /\ \A k \in 1..Len(calls) : calls[k].country = countries[k]
          /\ warnings = RaisedCountries(calls)
          /\ frames = ReturnedTables(calls)
    /\ pc \in AfterLoop =>
          /\ Len(df.rows) = RowsBefore(Len(calls) + 1)
          /\ \A m \in 1..Len(df.rows) : \E k \in 1..Len(calls) :
                /\ ~calls[k].raised
                /\ \E n \in 1..Len(calls[k].table.rows) :
                      df.rows[m] = calls[k].table.rows[n]

C2_Witness ==
    /\ pc = "Rendered"
    /\ \E j, k \in 1..Len(calls) :
          /\ j < k
          /\ calls[j].raised
          /\ ~calls[k].raised
          /\ calls[k].table.rows # <<>>
    /\ Len(warnings) = 1

C3_States ==
    /\ pc \in {"Idle", "Validating", "Fetching", "Aggregating"} \cup Terminal
    /\ pc = "EmptyResult" =>
          /\ run /\ ValidLength(Len(countries))
          /\ df.rows = <<>>
          /\ \A k \in 1..Len(calls) : calls[k].raised \/ calls[k].table.rows = <<>>
    /\ pc = "Rendered" =>
          /\ run /\ ValidLength(Len(countries))
          /\ df.rows # <<>>
          /\ Rendering \subseteq outputs
    /\ pc = "RejectedInput" => run /\ ~ValidLength(Len(countries))
    /\ outputs \cap Rendering # {} => pc = "Rendered"

\* within a run only the listed transitions; a user action on a resting page
\* starts the next script run
C3_Transition ==
    pc' # pc =>
        \/ <<pc, pc'>> \in { <<"Idle", "Validating">>, <<"Validating", "Fetching">>,
                             <<"Fetching", "Aggregating">>, <<"Aggregating", "Rendered">>,
                             <<"Validating", "RejectedInput">>,
                             <<"Aggregating", "EmptyResult">> }
        \/ pc \in Terminal /\ pc' \in {"Idle", "Validating"}

\* C3: every triggered run ends in one of RejectedInput, EmptyResult and
\* Rendered and moves only along Idle -> Validating -> Fetching ->
\* Aggregating -> Rendered with the exits Validating -> RejectedInput and
\* Aggregating -> EmptyResult; EmptyResult is reached exactly when the input
\* is valid and the combined table has no rows; chart, table and CSV export
\* exist only in Rendered.
C3_RunFlow ==
    /\ []C3_States
    /\ [][C3_Transition]_vars
    /\ (pc = "Validating" ~> pc \in Terminal)
    /\ (pc = "Aggregating" /\ df.rows = <<>> ~> pc = "EmptyResult")

C3_Witness ==
    /\ pc = "EmptyResult"
    /\ \E j, k \in 1..Len(calls) : calls[j].raised /\ ~calls[k].raised

\* C4: the combined table is the concatenation, in the order the countries
\* were listed, of the tables of the calls that returned, and inside each
\* country's block the years ascend.
C4_CombinedIsOrderedConcatenation ==
    pc \in AfterLoop =>
        /\ Len(df.rows) = RowsBefore(Len(calls) + 1)
        /\ \A k \in 1..Len(calls) : ~calls[k].raised =>
              /\ calls[k].country = countries[k]
              /\ \A m \in 1..Len(calls[k].table.rows) :
                    /\ df.rows[RowsBefore(k) + m] = calls[k].table.rows[m]
                    /\ m > 1 => df.rows[RowsBefore(k) + m - 1].year
                                    <= df.rows[RowsBefore(k) + m].year

C4_Witness ==
    /\ pc = "Rendered"
    /\ Len(calls) = 2
    /\ countries[1] # countries[2]
    /\ \A k \in 1..2 : ~calls[k].raised /\ Len(calls[k].table.rows) = 2
    /\ df.rows[1].year < df.rows[2].year

\* C9: in a run with 1 to 15 countries, whatever the calls did, every iso3
\* of the combined table is one of the parsed country codes.
C9_Iso3AmongRequested ==
    /\ \A f \in 1..Len(frames) : \A m \in 1..Len(frames[f].rows) :
          \E k \in 1..Len(countries) : frames[f].rows[m].iso3 = countries[k]
    /\ pc \in AfterLoop =>
          \A m \in 1..Len(df.rows) :
              \E k \in 1..Len(countries) : df.rows[m].iso3 = countries[k]

C9_Witness ==
    /\ pc = "Rendered"
    /\ \E k \in 1..Len(countries_text) : countries_text[k] = "a"
    /\ \E k \in 1..Len(calls) : calls[k].raised
    /\ df.rows # <<>>

IsCode(c) ==
    /\ c # <<>>
    /\ c[1] # " " /\ c[Len(c)] # " "
    /\ \A k \in 1..Len(c) : c[k] \notin {"a", "b", ","}

\* C10: the parsed country list holds trimmed, uppercased, non-empty codes
\* and no code more than once, so a country listed twice is fetched once and
\* its rows are in the combined table once.
C10_ParsedListIsSetLike ==
    /\ \A k \in 1..Len(countries) : IsCode(countries[k])
    /\ \A j, k \in 1..Len(countries) : j # k => countries[j] # countries[k]
    /\ \A j, k \in 1..Len(calls) : j # k => calls[j].country # calls[k].country

----------------------------------------------------------------------------
(* Properties of one call of fetch_world_bank *)

\* the latest call of the current run
LastCall == calls[Len(calls)]

\* the latest call made a request that was answered 200 with a JSON body
Answered == calls # <<>> /\ LastCall.net /\ last_resp.json

Digits == {"0", "1", "2", "3", "4", "5", "6", "7", "8", "9"}

\* the date of a payload entry is a year
ParseableYear(d) ==
    ~d.isNone /\ d.s # <<>> /\ \A k \in 1..Len(d.s) : d.s[k] \in Digits

\* the indicator of the row of entry e of a call for the code requested
EchoedOr(e, requested) == IF e.indicator = None THEN requested ELSE e.indicator

\* C5: for every payload whose second element is a sequence of entries the
\* call returns, with exactly one row per entry whose date is a year and
\* none for an entry whose date is null, missing or unparseable (stated for
\* a sequence of at least one entry; the sequence of none is the case of C6).
C5_OneRowPerDatedEntry ==
    (Answered /\ last_resp.top = "list_array" /\ last_resp.items # <<>>) =>
        /\ ~LastCall.raised
        /\ Len(LastCall.table.rows)
              = Cardinality({k \in 1..Len(last_resp.items) :
                                ParseableYear(last_resp.items[k].date)})
        /\ \A m \in 1..Len(LastCall.table.rows) :
              \E k \in 1..Len(last_resp.items) :
                  /\ ParseableYear(last_resp.items[k].date)
                  /\ LastCall.table.rows[m].year = IntOf(last_resp.items[k].date.s)

\* C6: when the second element of the payload is absent, null or a sequence
\* of zero entries, the call returns the empty table with the Observation
\* columns and the country gets no warning.
C6_NoDataIsEmptyTableWithoutWarning ==
    (Answered /\ (\/ last_resp.top \in {"list1", "list_null"}
                  \/ last_resp.top = "list_array" /\ last_resp.items = <<>>)) =>
        /\ ~LastCall.raised
        /\ LastCall.table = [columns |-> ObservationColumns, rows |-> <<>>]
        /\ Len(warnings) = Len(RaisedCountries(SubSeq(calls, 1, Len(calls) - 1)))

\* C8 as stated: all rows of a returned table carry the requested country
\* code and the requested indicator code.
C8_RowsCarryRequestedIndicator ==
    (calls # <<>> /\ ~LastCall.raised) =>
        \A m \in 1..Len(LastCall.table.rows) :
            /\ LastCall.table.rows[m].iso3 = LastCall.key[1]
            /\ LastCall.table.rows[m].indicator = LastCall.key[2]

\* C8 as amended: all rows of a returned table carry the requested country
\* code; a row's indicator is the id the service echoed in the row's entry,
\* and the requested indicator code when the entry echoes none.
C8_RowsCarryEchoedIndicator ==
    (calls # <<>> /\ ~LastCall.raised) =>
        \A m \in 1..Len(LastCall.table.rows) :
            /\ LastCall.table.rows[m].iso3 = LastCall.key[1]
            /\ LastCall.net =>
                  \E k \in 1..Len(last_resp.items) :
                      /\ ParseableYear(last_resp.items[k].date)
                      /\ LastCall.table.rows[m].year = IntOf(last_resp.items[k].date.s)
                      /\ LastCall.table.rows[m].value = last_resp.items[k].value
                      /\ LastCall.table.rows[m].indicator
                            = EchoedOr(last_resp.items[k], LastCall.key[2])
            /\ ~LastCall.net => LastCall.table = returned[LastCall.key]

C8_Witness ==
    /\ Answered
    /\ ~LastCall.raised
    /\ \E m \in 1..Len(LastCall.table.rows) :
          LastCall.table.rows[m].indicator # LastCall.key[2]

\* a call of fetch_world_bank was made in this step
Called == Len(calls') = Len(calls) + 1

C7_Step ==
    /\ \A k \in DOMAIN cache : k \in DOMAIN cache' /\ cache'[k] = cache[k]
    /\ (Called /\ calls'[Len(calls')].key \in DOMAIN returned) =>
          /\ ~calls'[Len(calls')].net
          /\ ~calls'[Len(calls')].raised
          /\ calls'[Len(calls')].table = returned[calls'[Len(calls')].key]

\* C7: once fetch_world_bank has returned a table for an input tuple, every
\* later call with that tuple, in the same run or a later one, makes no
\* request and returns the same table; no cache entry is ever dropped or
\* changed.
C7_MemoizedForTheProcess == [][C7_Step]_vars

C7_Witness ==
    /\ Len(calls) = 2
    /\ calls[1].net /\ ~calls[1].raised /\ calls[1].table.rows # <<>>
    /\ ~calls[2].net /\ calls[2].table = calls[1].table
    /\ Cardinality(DOMAIN cache) >= 2

====
